---- MODULE Spec2Model ----
(***************************************************************************)
(* Model of notebooks/riemann/euler/Euler_exact_Riemann_solver.ipynb: the  *)
(* exact Riemann solver for the 1-D Euler equations                        *)
(* (exact_riemann_solution), its two conversion helpers, the module-level  *)
(* gamma they read, and the evaluator reval the solver returns.            *)
(*                                                                         *)
(* Numbers.  Python floats are modelled as fixed-point numbers: the        *)
(* integer n stands for n / Scale, every operation rounds to the nearest   *)
(* representable value (as IEEE arithmetic does), and NaN is a quiet       *)
(* not-a-number that propagates through arithmetic and makes every         *)
(* comparison false.                                                       *)
(*                                                                         *)
(* scipy.optimize.fsolve is library code; it is modelled by its contract   *)
(* (see Fsolve).                                                           *)
(***************************************************************************)
EXTENDS Integers, Sequences, FiniteSets, TLC

\* Resolution of the fixed-point numbers: n stands for n / Scale.
Scale == 100

\* numpy's nan (np.sqrt of a negative number, x / 0).
NaN == -999999

\* A local name that has not been assigned yet.
Unbound == NaN - 1

----------------------------------------------------------------------------
(* Fixed-point arithmetic *)

\* The one element of a singleton.  An operator body written
\* Only({e(x) : x \in {a}}) computes the argument a once, where e(a)
\* would compute it at each of its occurrences.
Only(S) == CHOOSE r \in S : TRUE

Abs(x) == Only({IF y < 0 THEN -y ELSE y : y \in {x}})

\* a / b on integers, rounded to nearest (half away from zero).
RDiv(a, b) ==
  Only({ IF y = 0 THEN NaN
         ELSE (IF (x >= 0) = (y > 0) THEN 1 ELSE -1)
                * ((2 * Abs(x) + Abs(y)) \div (2 * Abs(y)))
         : x \in {a}, y \in {b} })

FAdd(a, b) ==
  Only({IF x = NaN \/ y = NaN THEN NaN ELSE x + y : x \in {a}, y \in {b}})
FSub(a, b) ==
  Only({IF x = NaN \/ y = NaN THEN NaN ELSE x - y : x \in {a}, y \in {b}})
FMul(a, b) ==
  Only({IF x = NaN \/ y = NaN THEN NaN ELSE RDiv(x * y, Scale)
        : x \in {a}, y \in {b}})
FDiv(a, b) ==
  Only({IF x = NaN \/ y = NaN THEN NaN ELSE RDiv(x * Scale, y)
        : x \in {a}, y \in {b}})

\* Comparisons: false as soon as one side is nan.
FLt(a, b) == Only({x # NaN /\ y # NaN /\ x < y : x \in {a}, y \in {b}})
FLe(a, b) == Only({x # NaN /\ y # NaN /\ x <= y : x \in {a}, y \in {b}})
FGt(a, b) == FLt(b, a)
FGe(a, b) == FLe(b, a)

RECURSIVE FloorRoot(_, _, _, _)
\* The largest r in lo..hi with r^k <= n (k = 2 or 3), by bisection;
\* lo^k <= n is assumed.
FloorRoot(n, k, lo, hi) ==
  IF lo >= hi THEN lo
  ELSE Only({ IF (IF k = 2 THEN mid * mid ELSE mid * mid * mid) <= n
              THEN FloorRoot(n, k, mid, hi)
              ELSE FloorRoot(n, k, lo, mid - 1)
              : mid \in {(lo + hi + 1) \div 2} })

\* Integer square root of n >= 0, rounded to nearest.
ISqrt(n) ==
  Only({ IF m - r * r <= r THEN r ELSE r + 1
         : m \in {n},
           r \in {FloorRoot(n, 2, 0,
                            IF n < 100 THEN n
                            ELSE IF n < 10000 THEN 100
                            ELSE IF n < 1000000 THEN 1000 ELSE 46340)} })

\* Integer cube root of n >= 0, rounded to nearest.
ICbrt(n) ==
  Only({ IF m - r * r * r <= (r + 1) * (r + 1) * (r + 1) - m THEN r ELSE r + 1
         : m \in {n},
           r \in {FloorRoot(n, 3, 0, IF n < 1289 THEN n ELSE 1289)} })

\* np.sqrt
FSqrt(a) ==
  Only({IF x = NaN \/ x < 0 THEN NaN ELSE ISqrt(x * Scale) : x \in {a}})

RECURSIVE GCD(_, _)
GCD(a, b) == IF b = 0 THEN a ELSE GCD(b, a % b)

RECURSIVE IPow(_, _)
\* x ** n for a natural number n.
IPow(x, n) ==
  Only({IF m = 0 THEN Scale ELSE FMul(IPow(y, m - 1), y) : y \in {x}, m \in {n}})

RECURSIVE Root(_, _)
\* y ** (1/n) for y >= 0 and n of the form 2^i or 3 * 2^i.
Root(y, n) ==
  Only({ IF m = 1 THEN z
         ELSE IF m % 2 = 0 THEN Root(ISqrt(z * Scale), m \div 2)
         ELSE ICbrt(z * Scale * Scale)
         : z \in {y}, m \in {n} })

\* x ** (a / b), the exponent given as a ratio of two positive integers:
\* nan for a negative base and a fractional exponent.
FPow(x, a, b) ==
  Only({ IF y = NaN THEN NaN
         ELSE IF b \div d > 1 /\ y < 0 THEN NaN
         ELSE Root(IPow(y, a \div d), b \div d)
         : y \in {x}, d \in {GCD(a, b)} })

----------------------------------------------------------------------------
(* The conversion helpers.  Both read the module-level name gamma; g is    *)
(* the value that name holds when the helper runs.                         *)

\* def primitive_to_conservative(rho,u,p)
primitive_to_conservative(rho, u, p, g) ==
  LET mom == FMul(rho, u)
      E   == FAdd(FDiv(p, FSub(g, Scale)),
                  FMul(FMul(RDiv(Scale, 2), rho), FPow(u, 2, 1)))
  IN  <<rho, mom, E>>

\* Variant: the factor 0.5 of the kinetic energy left out on the way back.
conservative_to_primitive_nohalf(q, g) ==
  LET rho == q[1]
      u   == FDiv(q[2], rho)
      p   == FMul(FSub(g, Scale), FSub(q[3], FMul(rho, FPow(u, 2, 1))))
  IN  <<rho, u, p>>

\* def conservative_to_primitive(rho,mom,E); rho # 0 (else mom/rho raises).
conservative_to_primitive(q, g) ==
  LET rho == q[1]
      u   == FDiv(q[2], rho)
      p   == FMul(FSub(g, Scale),
                  FSub(q[3], FMul(FMul(RDiv(Scale, 2), rho), FPow(u, 2, 1))))
  IN  <<rho, u, p>>

----------------------------------------------------------------------------
(* The body of exact_riemann_solution.  f is the record of the call's      *)
(* local names (see NewFrame).                                             *)

\* c = np.sqrt(gamma*p/rho)
SoundSpeed(g, p, rho) == FSqrt(FDiv(FMul(g, p), rho))

\* beta = (gamma+1.)/(gamma-1.)
Beta(g) == FDiv(FAdd(g, Scale), FSub(g, Scale))

\* u_l - u_r + 2*(c_l+c_r)/(gamma-1.)
CavitationQuantity(f) ==
  FAdd(FSub(f.u_l, f.u_r),
       FDiv(FMul(2 * Scale, FAdd(f.c_l, f.c_r)), FSub(f.gamma, Scale)))

\* Variant: the two velocities exchanged, u_r - u_l + 2*(c_l+c_r)/(gamma-1.).
CavitationSwapped(f) ==
  FLt(FAdd(FSub(f.u_r, f.u_l),
           FDiv(FMul(2 * Scale, FAdd(f.c_l, f.c_r)), FSub(f.gamma, Scale))),
      0)

\* Variant: the comparison of the cavitation test turned round.
CavitationReversed(f) == FGt(CavitationQuantity(f), 0)

\* Variant: the test written "not (... >= 0)", which a nan passes.
CavitationNegated(f) == ~FGe(CavitationQuantity(f), 0)

\* if u_l - u_r + 2*(c_l+c_r)/(gamma-1.) < 0
Cavitation(f) == FLt(CavitationQuantity(f), 0)

\* u_s +/- 2*c_s/(gamma-1.)*(1.-(p/p_s)**((gamma-1.)/(2.*gamma)))
IntegralTerm(p, c_s, p_s, g) ==
  FMul(FDiv(FMul(2 * Scale, c_s), FSub(g, Scale)),
       FSub(Scale, FPow(FDiv(p, p_s), g - Scale, 2 * g)))

integral_curve_1(p, f) == FAdd(f.u_l, IntegralTerm(p, f.c_l, f.p_l, f.gamma))
integral_curve_3(p, f) == FSub(f.u_r, IntegralTerm(p, f.c_r, f.p_r, f.gamma))

\* Variant: the numerator p/p_s in place of 1-p/p_s.
HugoniotTermRatio(p, c_s, p_s, g, beta) ==
  FMul(FDiv(FMul(2 * Scale, c_s),
            FSqrt(FMul(FMul(2 * Scale, g), FSub(g, Scale)))),
       FDiv(FDiv(p, p_s),
            FSqrt(FAdd(Scale, FDiv(FMul(beta, p), p_s)))))

\* 2*c_s/np.sqrt(2*gamma*(gamma-1.)) * ((1-p/p_s)/np.sqrt(1+beta*p/p_s))
HugoniotTerm(p, c_s, p_s, g, beta) ==
  FMul(FDiv(FMul(2 * Scale, c_s),
            FSqrt(FMul(FMul(2 * Scale, g), FSub(g, Scale)))),
       FDiv(FSub(Scale, FDiv(p, p_s)),
            FSqrt(FAdd(Scale, FDiv(FMul(beta, p), p_s)))))

hugoniot_locus_1(p, f) ==
  FAdd(f.u_l, HugoniotTerm(p, f.c_l, f.p_l, f.gamma, f.beta))
hugoniot_locus_3(p, f) ==
  FSub(f.u_r, HugoniotTerm(p, f.c_r, f.p_r, f.gamma, f.beta))

phi_l(p, f) ==
  IF FGe(p, f.p_l) THEN hugoniot_locus_1(p, f) ELSE integral_curve_1(p, f)

phi_r(p, f) ==
  IF FGe(p, f.p_r) THEN hugoniot_locus_3(p, f) ELSE integral_curve_3(p, f)

phi(p, f) == FSub(phi_l(p, f), phi_r(p, f))

----------------------------------------------------------------------------
(* scipy.optimize.fsolve(phi, x0, full_output=True, ...), by contract.     *)
(* It returns an iterate p and a status ier.  ier = 1 (converged) comes    *)
(* only with a root of phi at the resolution of the arithmetic: the start  *)
(* value when phi vanishes there (MINPACK stops at once on a zero          *)
(* residual), else the p with phi(p) >= 0 > phi(p + 1 ulp).  Any call may  *)
(* instead end without convergence (ier = 5), returning some iterate.      *)

\* The largest pressure the root search looks at, in units.
MaxPressure == 12

\* x0 = (p_l+p_r)/2.
Seed(f) == FDiv(FAdd(f.p_l, f.p_r), 2 * Scale)

RECURSIVE Bisect(_, _, _)
Bisect(f, lo, hi) ==
  IF hi - lo <= 1 THEN lo
  ELSE Only({ IF FLt(phi(mid, f), 0) THEN Bisect(f, lo, mid)
              ELSE Bisect(f, mid, hi)
              : mid \in {(lo + hi) \div 2} })

\* The root a converged run returns, or NaN when there is none to find.
FsolveRoot(f) ==
  LET hi == MaxPressure * Scale
  IN  IF phi(Seed(f), f) = 0 THEN Seed(f)
      ELSE IF FGe(phi(0, f), 0) /\ FLt(phi(hi, f), 0)
      THEN LET r == Bisect(f, 0, hi)
           IN  IF FGe(phi(r, f), 0) THEN r ELSE NaN
      ELSE NaN

\* The iterates a run that does not converge may stop at: its start value.
Iterates(f) == {Seed(f)}

\* The outcomes of one fsolve call: the returned p and ier.
Fsolve(f) ==
  {[p |-> r, ier |-> 1] : r \in {FsolveRoot(f)} \ {NaN}}
    \cup {[p |-> b, ier |-> 5] : b \in Iterates(f)}

----------------------------------------------------------------------------
(* Lines 142-168: the middle state and the wave speeds, from the p that    *)
(* fsolve returned.                                                        *)

\* Variant: u taken from the right-hand curve, u = phi_r(p).
StarVelocityRight(f) == phi_r(f.p, f)

\* u = phi_l(p)
StarVelocity(f) == phi_l(f.p, f)

\* Variant: behind a shock (p > p_s) the density of the Hugoniot relation,
\* rho_s*(1+beta*p/p_s)/(p/p_s+beta).
StarDensityHugoniot(p, p_s, rho_s, g) ==
  IF FGt(p, p_s)
  THEN FMul(rho_s, FDiv(FAdd(Scale, FMul(Beta(g), FDiv(p, p_s))),
                        FAdd(FDiv(p, p_s), Beta(g))))
  ELSE FMul(FPow(FDiv(p, p_s), Scale, g), rho_s)

\* Variant: the pressure ratio upside down, (p_s/p)**(1./gamma) * rho_s.
StarDensityInverted(p, p_s, rho_s, g) ==
  FMul(FPow(FDiv(p_s, p), Scale, g), rho_s)

\* rho_s_star = (p/p_s)**(1./gamma) * rho_s
StarDensity(p, p_s, rho_s, g) == FMul(FPow(FDiv(p, p_s), Scale, g), rho_s)

\* (rho_s*u_s - rho_s_star*u)/(rho_s - rho_s_star)
ShockSpeed(rho_s, u_s, rho_star, u) ==
  FDiv(FSub(FMul(rho_s, u_s), FMul(rho_star, u)), FSub(rho_s, rho_star))

\* Variant: the test of line 154 inverted, p<p_l.
LeftSpeedsInverted(f, u, rho_l_star) ==
  IF FLt(f.p, f.p_l)
  THEN LET s == ShockSpeed(f.rho_l, f.u_l, rho_l_star, u) IN <<s, s>>
  ELSE LET c_l_star == SoundSpeed(f.gamma, f.p, rho_l_star)
       IN  <<FSub(f.u_l, f.c_l), FSub(u, c_l_star)>>

\* Variant: the test of line 154 as in phi_l, p>=p_l.
LeftSpeedsGe(f, u, rho_l_star) ==
  IF FGe(f.p, f.p_l)
  THEN LET s == ShockSpeed(f.rho_l, f.u_l, rho_l_star, u) IN <<s, s>>
  ELSE LET c_l_star == SoundSpeed(f.gamma, f.p, rho_l_star)
       IN  <<FSub(f.u_l, f.c_l), FSub(u, c_l_star)>>

\* ws[0], ws[1]: if p>p_l the shock speed twice, else the fan's head and tail.
LeftSpeeds(f, u, rho_l_star) ==
  IF FGt(f.p, f.p_l)
  THEN LET s == ShockSpeed(f.rho_l, f.u_l, rho_l_star, u) IN <<s, s>>
  ELSE LET c_l_star == SoundSpeed(f.gamma, f.p, rho_l_star)
       IN  <<FSub(f.u_l, f.c_l), FSub(u, c_l_star)>>

\* Variant: the line ws[3] = ws[4] is missing, ws[3] keeps the 0 of np.zeros.
RightSpeedsNoHead(f, u, rho_r_star) ==
  IF FGt(f.p, f.p_r)
  THEN LET s == ShockSpeed(f.rho_r, f.u_r, rho_r_star, u) IN <<0, s>>
  ELSE LET c_r_star == SoundSpeed(f.gamma, f.p, rho_r_star)
       IN  <<FAdd(u, c_r_star), FAdd(f.u_r, f.c_r)>>

\* Variant: the test of line 162 as in phi_r, p>=p_r.
RightSpeedsGe(f, u, rho_r_star) ==
  IF FGe(f.p, f.p_r)
  THEN LET s == ShockSpeed(f.rho_r, f.u_r, rho_r_star, u) IN <<s, s>>
  ELSE LET c_r_star == SoundSpeed(f.gamma, f.p, rho_r_star)
       IN  <<FAdd(u, c_r_star), FAdd(f.u_r, f.c_r)>>

\* ws[3], ws[4]: if p>p_r the shock speed twice, else the fan's head and tail.
RightSpeeds(f, u, rho_r_star) ==
  IF FGt(f.p, f.p_r)
  THEN LET s == ShockSpeed(f.rho_r, f.u_r, rho_r_star, u) IN <<s, s>>
  ELSE LET c_r_star == SoundSpeed(f.gamma, f.p, rho_r_star)
       IN  <<FAdd(u, c_r_star), FAdd(f.u_r, f.c_r)>>

\* The array ws after line 168 (ws[i] of the code is WaveSpeeds(..)[i+1]).
WaveSpeeds(f, u, rho_l_star, rho_r_star) ==
  LET l == LeftSpeeds(f, u, rho_l_star)
      r == RightSpeeds(f, u, rho_r_star)
  IN  <<l[1], l[2], u, r[1], r[2]>>

\* speeds = [(ws[0],ws[1]),ws[2],(ws[3],ws[4])]
SpeedsList(ws) == <<<<ws[1], ws[2]>>, ws[3], <<ws[4], ws[5]>>>>

----------------------------------------------------------------------------
(* The closures raref1, raref3 and reval.  They read the call's locals f;  *)
(* reval reads the list object speeds (sp: its content when reval runs)    *)
(* and, through primitive_to_conservative, the module-level gamma (g).     *)

raref1(xi, f) ==
  LET u1   == FDiv(FAdd(FMul(FSub(f.gamma, Scale), f.u_l),
                        FMul(2 * Scale, FAdd(f.c_l, xi))),
                   FAdd(f.gamma, Scale))
      rho1 == FPow(FDiv(FMul(FPow(f.rho_l, f.gamma, Scale),
                             FPow(FSub(u1, xi), 2, 1)),
                        FMul(f.gamma, f.p_l)),
                   Scale, f.gamma - Scale)
      p1   == FMul(f.p_l, FPow(FDiv(rho1, f.rho_l), f.gamma, Scale))
  IN  <<rho1, u1, p1>>

\* Variant: a sign slip in u3, + 2*(c_r - xi).
raref3Plus(xi, f) ==
  LET u3   == FDiv(FAdd(FMul(FSub(f.gamma, Scale), f.u_r),
                        FMul(2 * Scale, FSub(f.c_r, xi))),
                   FAdd(f.gamma, Scale))
      rho3 == FPow(FDiv(FMul(FPow(f.rho_r, f.gamma, Scale),
                             FPow(FSub(xi, u3), 2, 1)),
                        FMul(f.gamma, f.p_r)),
                   Scale, f.gamma - Scale)
      p3   == FMul(f.p_r, FPow(FDiv(rho3, f.rho_r), f.gamma, Scale))
  IN  <<rho3, u3, p3>>

raref3(xi, f) ==
  LET u3   == FDiv(FSub(FMul(FSub(f.gamma, Scale), f.u_r),
                        FMul(2 * Scale, FSub(f.c_r, xi))),
                   FAdd(f.gamma, Scale))
      rho3 == FPow(FDiv(FMul(FPow(f.rho_r, f.gamma, Scale),
                             FPow(FSub(xi, u3), 2, 1)),
                        FMul(f.gamma, f.p_r)),
                   Scale, f.gamma - Scale)
      p3   == FMul(f.p_r, FPow(FDiv(rho3, f.rho_r), f.gamma, Scale))
  IN  <<rho3, u3, p3>>

\* Variant: every upper bound tested with < instead of <=.
IndicatorsStrict(xi, sp) ==
  << FLt(xi, sp[1][1]),
     FGt(xi, sp[1][1]) /\ FLt(xi, sp[1][2]),
     FGt(xi, sp[1][2]) /\ FLt(xi, sp[2]),
     FGt(xi, sp[2])    /\ FLt(xi, sp[3][1]),
     FGt(xi, sp[3][1]) /\ FLt(xi, sp[3][2]),
     FGt(xi, sp[3][2]) >>

\* The six indicator factors of each sum in reval, in the order of the code.
Indicators(xi, sp) ==
  << FLe(xi, sp[1][1]),
     FGt(xi, sp[1][1]) /\ FLe(xi, sp[1][2]),
     FGt(xi, sp[1][2]) /\ FLe(xi, sp[2]),
     FGt(xi, sp[2])    /\ FLe(xi, sp[3][1]),
     FGt(xi, sp[3][1]) /\ FLe(xi, sp[3][2]),
     FGt(xi, sp[3][2]) >>

\* (boolean) * x: x or 0, and nan when x is nan.
Times(b, x) == IF x = NaN THEN NaN ELSE IF b THEN x ELSE 0

\* ind[1]*v[1] + ... + ind[6]*v[6]
IndicatorSum(ind, v) ==
  FAdd(FAdd(FAdd(FAdd(FAdd(Times(ind[1], v[1]), Times(ind[2], v[2])),
                           Times(ind[3], v[3])), Times(ind[4], v[4])),
            Times(ind[5], v[5])), Times(ind[6], v[6]))

\* def reval(xi)
reval(xi, f, sp, g) ==
  LET rar1    == raref1(xi, f)
      rar3    == raref3(xi, f)
      ind     == Indicators(xi, sp)
      rho_out == IndicatorSum(ind, <<f.rho_l, rar1[1], f.rho_l_star,
                                     f.rho_r_star, rar3[1], f.rho_r>>)
      u_out   == IndicatorSum(ind, <<f.u_l, rar1[2], f.u, f.u, rar3[2], f.u_r>>)
      p_out   == IndicatorSum(ind, <<f.p_l, rar1[3], f.p, f.p, rar3[3], f.p_r>>)
  IN  primitive_to_conservative(rho_out, u_out, p_out, g)

----------------------------------------------------------------------------
(* State *)

VARIABLES
  gamma,   \* the module-level name gamma (the cell "gamma = 7./5.")
  frame,   \* per thread: the locals of its call of exact_riemann_solution,
           \* the objects the call returned, and what the caller did with them
  prev     \* per thread: the frame of the thread's previous call (<<>>: none)

vars == <<gamma, frame, prev>>

Threads == {1, 2}

\* The values of the ratio of specific heats that are explored (scaled).
\* With these the fractional powers of the solver are square, cube and
\* fourth roots.
GammaSet == {2 * Scale, 3 * Scale}

\* The number of calls a thread makes.
MaxCalls == 2

\* Riemann problems, as left and right primitive states (rho, u, p) in
\* units: the notebook's three examples (Sod, expansion, collision) with
\* moderate velocities, a problem that cavitates, two with a zero-strength
\* wave, and two inputs that are not physical (p < 0; rho = 0).
Problems ==
  { [l |-> <<3, 0, 3>>,  r |-> <<1, 0, 1>>],
    [l |-> <<1, -1, 1>>, r |-> <<1, 1, 1>>],
    [l |-> <<1, 1, 1>>,  r |-> <<1, -1, 1>>],
    [l |-> <<1, 2, 1>>,  r |-> <<1, -2, 1>>],
    [l |-> <<1, -3, 1>>, r |-> <<1, 3, 1>>],
    [l |-> <<1, 0, 1>>,  r |-> <<1, 0, 1>>],
    [l |-> <<2, 1, 2>>,  r |-> <<1, 0, 1>>],
    [l |-> <<1, 0, 2>>,  r |-> <<2, 0, 1>>],
    [l |-> <<1, 0, -1>>, r |-> <<1, 0, 1>>],
    [l |-> <<1, 0, 1>>,  r |-> <<0, 0, 1>>] }

\* The problem each of two concurrent threads solves.
ConcProblems ==
  [t \in Threads |-> IF t = 1 THEN [l |-> <<3, 0, 3>>,  r |-> <<1, 0, 1>>]
                              ELSE [l |-> <<1, -1, 1>>, r |-> <<1, 1, 1>>]]

\* q = primitive_to_conservative(rho, u, p), as the notebook's callers
\* build the arguments (lines 238-239), under the gamma of the moment.
Conserved(s, g) ==
  primitive_to_conservative(s[1] * Scale, s[2] * Scale, s[3] * Scale, g)

\* A thread that is in caller code, with nothing called yet.
NewFrame ==
  [ pc |-> "caller", ncalls |-> 0,
    q_l |-> <<>>, q_r |-> <<>>, gamma |-> Unbound,
    rho_l |-> Unbound, u_l |-> Unbound, p_l |-> Unbound,
    rho_r |-> Unbound, u_r |-> Unbound, p_r |-> Unbound,
    c_l |-> Unbound, c_r |-> Unbound, beta |-> Unbound,
    p |-> Unbound, ier |-> Unbound, fsolve_calls |-> <<>>,
    u |-> Unbound, rho_l_star |-> Unbound, rho_r_star |-> Unbound,
    ws |-> <<>>, q_l_star |-> <<>>, q_r_star |-> <<>>,
    log |-> <<>>,
    result |-> "none", states |-> <<>>, speeds |-> <<>>,
    g0 |-> Unbound, mutated |-> FALSE,
    xi |-> Unbound, q_out |-> <<>>, ind |-> <<>> ]

Init ==
  /\ gamma \in GammaSet
  /\ frame = [t \in Threads |-> NewFrame]
  /\ prev = [t \in Threads |-> <<>>]

Put(t, f) == frame' = [frame EXCEPT ![t] = f]

----------------------------------------------------------------------------
(* Caller code *)

\* A cell assigns the module-level gamma (line 227).
SetGamma(t, g) ==
  /\ frame[t].pc = "caller"
  /\ g # gamma
  /\ gamma' = g
  /\ UNCHANGED <<frame, prev>>

\* exact_riemann_solution(q_l, q_r, gamma=g) is entered.
Enter(t, q_l, q_r, g) ==
  Put(t, [NewFrame EXCEPT !.pc = "L99", !.ncalls = frame[t].ncalls + 1,
                          !.q_l = q_l, !.q_r = q_r, !.gamma = g,
                          !.g0 = gamma])

\* The thread's first call: a problem of ps, with the argument gamma=g.
Call(t, ps, g) ==
  /\ frame[t].pc = "caller"
  /\ frame[t].ncalls = 0
  /\ \E pb \in ps : Enter(t, Conserved(pb.l, gamma), Conserved(pb.r, gamma), g)
  /\ UNCHANGED <<gamma, prev>>

\* The caller repeats its call with the same three arguments.
CallAgain(t) ==
  /\ frame[t].pc = "caller"
  /\ frame[t].ncalls \in 1..(MaxCalls - 1)
  /\ frame[t].result = "tuple"
  /\ ~frame[t].mutated
  /\ prev' = [prev EXCEPT ![t] = [frame[t] EXCEPT !.xi = Unbound,
                                                 !.q_out = <<>>, !.ind = <<>>]]
  /\ Enter(t, frame[t].q_l, frame[t].q_r, frame[t].gamma)
  /\ UNCHANGED gamma

----------------------------------------------------------------------------
(* exact_riemann_solution, line by line *)

Log(f, e) == Append(f.log, e)

\* rho_l, u_l, p_l = conservative_to_primitive(*q_l); with rho = 0 the
\* division mom/rho of two Python floats raises ZeroDivisionError.
L99(t) ==
  LET f == frame[t] IN
  /\ f.pc = "L99"
  /\ IF f.q_l[1] = 0
     THEN Put(t, [f EXCEPT !.pc = "caller", !.result = "ZeroDivisionError"])
     ELSE LET s == conservative_to_primitive(f.q_l, gamma)
          IN  Put(t, [f EXCEPT !.pc = "L100", !.rho_l = s[1], !.u_l = s[2],
                               !.p_l = s[3], !.log = Log(f, "primitive_l")])
  /\ UNCHANGED <<gamma, prev>>

\* rho_r, u_r, p_r = conservative_to_primitive(*q_r)
L100(t) ==
  LET f == frame[t] IN
  /\ f.pc = "L100"
  /\ IF f.q_r[1] = 0
     THEN Put(t, [f EXCEPT !.pc = "caller", !.result = "ZeroDivisionError"])
     ELSE LET s == conservative_to_primitive(f.q_r, gamma)
          IN  Put(t, [f EXCEPT !.pc = "L110", !.rho_r = s[1], !.u_r = s[2],
                               !.p_r = s[3],
                               !.c_l = SoundSpeed(f.gamma, f.p_l, f.rho_l),
                               !.c_r = SoundSpeed(f.gamma, s[3], s[1]),
                               !.beta = Beta(f.gamma),
                               !.log = f.log \o <<"primitive_r", "sound_speeds">>])
  /\ UNCHANGED <<gamma, prev>>

\* Variant: the message is printed but the return statement is missing.
L110NoReturn(t) ==
  LET f == frame[t] IN
  /\ f.pc = "L110"
  /\ IF Cavitation(f)
     THEN Put(t, [f EXCEPT !.pc = "L133",
                           !.log = f.log \o <<"cavitation_check",
                                              "print_cavitation">>])
     ELSE Put(t, [f EXCEPT !.pc = "L133",
                           !.log = Log(f, "cavitation_check")])
  /\ UNCHANGED <<gamma, prev>>

\* The cavitation check: print and return None, or go on.
L110(t) ==
  LET f == frame[t] IN
  /\ f.pc = "L110"
  /\ IF Cavitation(f)
     THEN Put(t, [f EXCEPT !.pc = "caller", !.result = "None",
                           !.log = f.log \o <<"cavitation_check",
                                              "print_cavitation">>])
     ELSE Put(t, [f EXCEPT !.pc = "L133",
                           !.log = Log(f, "cavitation_check")])
  /\ UNCHANGED <<gamma, prev>>

\* p,info, ier, msg = fsolve(phi, (p_l+p_r)/2.,full_output=True,xtol=1.e-14)
L133(t) ==
  LET f == frame[t] IN
  /\ f.pc = "L133"
  /\ \E o \in Fsolve(f) :
       Put(t, [f EXCEPT !.pc = "L135", !.p = o.p, !.ier = o.ier,
                        !.fsolve_calls = Append(@, [x0 |-> Seed(f),
                                                    xtol |-> "1.e-14",
                                                    factor |-> "default"]),
                        !.log = Log(f, "fsolve")])
  /\ UNCHANGED <<gamma, prev>>

\* Variant: "while ier!=1" in place of "if ier!=1": the retry is repeated
\* until fsolve reports convergence.
L135While(t) ==
  LET f == frame[t] IN
  /\ f.pc = "L135"
  /\ IF f.ier # 1
     THEN \E o \in Fsolve(f) :
            Put(t, [f EXCEPT !.pc = "L135", !.p = o.p, !.ier = o.ier,
                             !.fsolve_calls = Append(@, [x0 |-> Seed(f),
                                                         xtol |-> "1.e-10",
                                                         factor |-> "0.1"]),
                             !.log = Log(f, "fsolve")])
     ELSE Put(t, [f EXCEPT !.pc = "L142"])
  /\ UNCHANGED <<gamma, prev>>

\* Variant: the test "if ier!=1" is missing and the second fsolve call is
\* always made.
L135Unconditional(t) ==
  LET f == frame[t] IN
  /\ f.pc = "L135"
  /\ \E o \in Fsolve(f) :
       Put(t, [f EXCEPT !.pc = "L142", !.p = o.p, !.ier = o.ier,
                        !.fsolve_calls = Append(@, [x0 |-> Seed(f),
                                                    xtol |-> "1.e-10",
                                                    factor |-> "0.1"]),
                        !.log = f.log \o (IF o.ier # 1
                                          THEN <<"fsolve", "print_warning">>
                                          ELSE <<"fsolve">>)])
  /\ UNCHANGED <<gamma, prev>>

\* if ier!=1: the retry with factor=0.1,xtol=1.e-10, and the warning when
\* that fails too.
L135(t) ==
  LET f == frame[t] IN
  /\ f.pc = "L135"
  /\ IF f.ier # 1
     THEN \E o \in Fsolve(f) :
            Put(t, [f EXCEPT !.pc = "L142", !.p = o.p, !.ier = o.ier,
                             !.fsolve_calls = Append(@, [x0 |-> Seed(f),
                                                         xtol |-> "1.e-10",
                                                         factor |-> "0.1"]),
                             !.log = f.log \o (IF o.ier # 1
                                               THEN <<"fsolve", "print_warning">>
                                               ELSE <<"fsolve">>)])
     ELSE Put(t, [f EXCEPT !.pc = "L142"])
  /\ UNCHANGED <<gamma, prev>>

\* Lines 142-168: u, the middle densities, the wave speeds.
L142(t) ==
  LET f   == frame[t]
      u   == StarVelocity(f)
      rls == StarDensity(f.p, f.p_l, f.rho_l, f.gamma)
      rrs == StarDensity(f.p, f.p_r, f.rho_r, f.gamma)
  IN
  /\ f.pc = "L142"
  /\ Put(t, [f EXCEPT !.pc = "L185", !.u = u, !.rho_l_star = rls,
                      !.rho_r_star = rrs,
                      !.ws = WaveSpeeds(f, u, rls, rrs),
                      !.log = f.log \o <<"star_state", "wave_speeds">>])
  /\ UNCHANGED <<gamma, prev>>

\* Variant: the arguments in the order of the commented-out line 176,
\* primitive_to_conservative(u, rho_l_star, p).
L185Swapped(t) ==
  LET f == frame[t] IN
  /\ f.pc = "L185"
  /\ Put(t, [f EXCEPT !.pc = "L186",
                      !.q_l_star = primitive_to_conservative(f.u, f.rho_l_star,
                                                             f.p, gamma)])
  /\ UNCHANGED <<gamma, prev>>

\* q_l_star = primitive_to_conservative(rho_l_star,u,p)
L185(t) ==
  LET f == frame[t] IN
  /\ f.pc = "L185"
  /\ Put(t, [f EXCEPT !.pc = "L186",
                      !.q_l_star = primitive_to_conservative(f.rho_l_star,
                                                             f.u, f.p, gamma)])
  /\ UNCHANGED <<gamma, prev>>

\* q_r_star = primitive_to_conservative(rho_r_star,u,p), then lines 188-200:
\* the two lists are built and returned with the closure reval.
L186(t) ==
  LET f   == frame[t]
      qrs == primitive_to_conservative(f.rho_r_star, f.u, f.p, gamma)
  IN
  /\ f.pc = "L186"
  /\ Put(t, [f EXCEPT !.pc = "caller", !.q_r_star = qrs,
                      !.states = <<f.q_l, f.q_l_star, qrs, f.q_r>>,
                      !.speeds = SpeedsList(f.ws),
                      !.result = "tuple",
                      !.log = Log(f, "return")])
  /\ UNCHANGED <<gamma, prev>>

----------------------------------------------------------------------------
(* What a caller does with the returned triple *)

\* The points at which callers evaluate: each boundary, the point one ulp
\* to its right, and two far points.
XiSet(f) ==
  IF f.result # "tuple" THEN {}
  ELSE LET b == {f.ws[i] : i \in 1..5} \ {NaN}
       IN  b \cup {x + 1 : x \in b} \cup {-4 * Scale, 4 * Scale}

\* reval(xi) is called.  reval changes nothing, so the state after a second
\* evaluation is the state after that evaluation alone: one per call is kept.
Reval(t, xi) ==
  LET f == frame[t] IN
  /\ f.pc = "caller"
  /\ f.result = "tuple"
  /\ f.xi = Unbound
  /\ Put(t, [f EXCEPT !.xi = xi, !.ind = Indicators(xi, f.speeds),
                      !.q_out = reval(xi, f, f.speeds, gamma)])
  /\ UNCHANGED <<gamma, prev>>

\* speeds[1] = v: the caller replaces the contact speed in the returned list.
MutateSpeeds(t, v) ==
  LET f == frame[t] IN
  /\ f.pc = "caller"
  /\ f.result = "tuple"
  /\ ~f.mutated
  /\ v # f.speeds[2]
  /\ Put(t, [f EXCEPT !.speeds = [@ EXCEPT ![2] = v], !.mutated = TRUE])
  /\ UNCHANGED <<gamma, prev>>

----------------------------------------------------------------------------
(* Specifications *)

Step(t) ==
  \/ L99(t) \/ L100(t) \/ L110(t) \/ L133(t) \/ L135(t)
  \/ L142(t) \/ L185(t) \/ L186(t)

\* One thread: a call, evaluations of the result, a change to the returned
\* list, and assignments to the module-level gamma in between.
Next ==
  \/ \E g \in GammaSet : SetGamma(1, g)
  \/ \E g \in GammaSet : Call(1, Problems, g)
  \/ Step(1)
  \/ \E xi \in XiSet(frame[1]) : Reval(1, xi)
  \/ \E v \in {-4 * Scale, 4 * Scale} : MutateSpeeds(1, v)

Spec == Init /\ [][Next]_vars

\* One thread that repeats its call with the same arguments.
NextTwice ==
  \/ \E g \in GammaSet : SetGamma(1, g)
  \/ \E g \in GammaSet : Call(1, Problems, g)
  \/ CallAgain(1)
  \/ Step(1)

SpecTwice == Init /\ [][NextTwice]_vars

\* Two threads, each running the notebook's caller code on its own problem:
\* it assigns the module-level gamma it wants and calls with gamma=gamma
\* (line 242).
NextConc ==
  \E t \in Threads :
    \/ \E g \in GammaSet : SetGamma(t, g)
    \/ Call(t, {ConcProblems[t]}, gamma)
    \/ Step(t)

SpecConc == Init /\ [][NextConc]_vars

----------------------------------------------------------------------------
(* A whole call run without interruption, the root-finder converging: what *)
(* exact_riemann_solution(q_l, q_r, gamma=g) returns when the module-level *)
(* gamma holds gg throughout.                                              *)
RunAlone(q_l, q_r, g, gg) ==
  IF q_l[1] = 0 \/ q_r[1] = 0
  THEN [result |-> "ZeroDivisionError", states |-> <<>>, speeds |-> <<>>]
  ELSE
    LET s_l == conservative_to_primitive(q_l, gg)
        s_r == conservative_to_primitive(q_r, gg)
        f0  == [NewFrame EXCEPT !.q_l = q_l, !.q_r = q_r, !.gamma = g,
                  !.rho_l = s_l[1], !.u_l = s_l[2], !.p_l = s_l[3],
                  !.rho_r = s_r[1], !.u_r = s_r[2], !.p_r = s_r[3],
                  !.c_l = SoundSpeed(g, s_l[3], s_l[1]),
                  !.c_r = SoundSpeed(g, s_r[3], s_r[1]),
                  !.beta = Beta(g)]
        f1  == [f0 EXCEPT !.p = FsolveRoot(f0), !.ier = 1]
        u   == StarVelocity(f1)
        rls == StarDensity(f1.p, f1.p_l, f1.rho_l, g)
        rrs == StarDensity(f1.p, f1.p_r, f1.rho_r, g)
    IN  IF Cavitation(f0)
        THEN [result |-> "None", states |-> <<>>, speeds |-> <<>>]
        ELSE [result |-> "tuple",
              states |-> <<q_l, primitive_to_conservative(rls, u, f1.p, gg),
                           primitive_to_conservative(rrs, u, f1.p, gg), q_r>>,
              speeds |-> SpeedsList(WaveSpeeds(f1, u, rls, rrs))]

----------------------------------------------------------------------------
(* Vocabulary of the properties *)

\* The thread's call has ended (by a return or by an exception).
Finished(f) == f.pc = "caller" /\ f.result # "none"

\* Event e happened in the call.
InLog(f, e) == \E i \in 1..Len(f.log) : f.log[i] = e

\* Both input states have positive density and positive derived pressure.
ValidInput(f) ==
  /\ f.q_l[1] > 0 /\ f.q_r[1] > 0
  /\ FGt(conservative_to_primitive(f.q_l, f.g0)[3], 0)
  /\ FGt(conservative_to_primitive(f.q_r, f.g0)[3], 0)

\* The five boundaries of a speeds list, ws[0]..ws[4].
Boundaries(sp) == <<sp[1][1], sp[1][2], sp[2], sp[3][1], sp[3][2]>>

\* ws[0] <= ws[1] <= ws[2] <= ws[3] <= ws[4]
Ordered(w) == \A i \in 1..4 : FLe(w[i], w[i + 1])

\* The cavitation condition holds of the primitive states of the call.
CavitationHolds(f) ==
  /\ f.c_r # Unbound
  /\ FLt(FAdd(FSub(f.u_l, f.u_r),
              FDiv(FMul(2 * Scale, FAdd(f.c_l, f.c_r)), FSub(f.gamma, Scale))),
         0)

----------------------------------------------------------------------------
(* C1 *)

\* C1, as the specification states it: a call whose primitive states
\* satisfy the cavitation condition ends with an error outcome (a
\* CavitationError), not with an ordinary return value.
C1_Claim ==
  \A t \in Threads :
    (Finished(frame[t]) /\ CavitationHolds(frame[t]))
      => frame[t].result = "CavitationError"

\* C1, amended: a call whose primitive states satisfy the cavitation
\* condition prints the cavitation message and returns None: an ordinary
\* return value, which is not a (states, speeds, evaluator) triple.
C1_Amended ==
  \A t \in Threads :
    (Finished(frame[t]) /\ CavitationHolds(frame[t]))
      => /\ frame[t].result = "None"
         /\ frame[t].log[Len(frame[t].log)] = "print_cavitation"
         /\ frame[t].states = <<>> /\ frame[t].speeds = <<>>

C1_Witness ==
  \E t \in Threads :
    /\ Finished(frame[t]) /\ CavitationHolds(frame[t])
    /\ frame[t].result = "None"

----------------------------------------------------------------------------
(* C2 *)

\* Both root-finder invocations were made and the second did not converge.
NotConverged(f) == Len(f.fsolve_calls) = 2 /\ f.ier # 1

\* C2, as the specification states it: when neither root-finder invocation
\* converges the call ends with an error outcome (a ConvergenceError) and
\* returns no states, speeds or evaluator.
C2_Claim ==
  \A t \in Threads :
    (Finished(frame[t]) /\ NotConverged(frame[t]))
      => /\ frame[t].result = "ConvergenceError"
         /\ frame[t].states = <<>> /\ frame[t].speeds = <<>>

\* C2, amended: when neither root-finder invocation converges the call
\* prints a warning and goes on: it returns the (states, speeds, evaluator)
\* triple computed from the p of the second invocation, with u = phi_l(p).
C2_Amended ==
  \A t \in Threads :
    (Finished(frame[t]) /\ NotConverged(frame[t]))
      => /\ frame[t].result = "tuple"
         /\ InLog(frame[t], "print_warning")
         /\ frame[t].u = phi_l(frame[t].p, frame[t])
         /\ frame[t].states[2] = frame[t].q_l_star
         /\ frame[t].ws[3] = frame[t].u

C2_Witness ==
  \E t \in Threads :
    /\ Finished(frame[t]) /\ NotConverged(frame[t])
    /\ frame[t].result = "tuple"
    /\ phi(frame[t].p, frame[t]) # 0

----------------------------------------------------------------------------
(* C3 *)

\* C3: the cavitation check is evaluated before any root-finder invocation,
\* and when it triggers the call ends at once: no root-finder invocation is
\* made, no middle state and no wave speed is computed, nothing but None is
\* returned.
C3_CheckFirst ==
  \A t \in Threads :
    LET f == frame[t] IN
    /\ \A i \in 1..Len(f.log) :
         f.log[i] = "fsolve" => \E j \in 1..(i - 1) : f.log[j] = "cavitation_check"
    /\ InLog(f, "print_cavitation")
         => /\ f.pc = "caller" /\ f.result = "None"
            /\ f.fsolve_calls = <<>>
            /\ ~InLog(f, "fsolve") /\ ~InLog(f, "star_state")
            /\ ~InLog(f, "wave_speeds")
            /\ f.u = Unbound /\ f.rho_l_star = Unbound /\ f.ws = <<>>
            /\ f.states = <<>> /\ f.speeds = <<>>

C3_Witness ==
  \E t \in Threads :
    /\ InLog(frame[t], "print_cavitation")
    /\ frame[t].pc = "caller"
    /\ frame[t].fsolve_calls = <<>>

----------------------------------------------------------------------------
(* C4 *)

\* An input state has a non-positive density, or its derived pressure is
\* non-positive.
NonPositiveInput(f) ==
  /\ f.q_l # <<>>
  /\ \E q \in {f.q_l, f.q_r} :
       \/ q[1] <= 0
       \/ FLe(conservative_to_primitive(q, f.g0)[3], 0)

\* C4, as the specification states it: an input state with non-positive
\* density or pressure is rejected (InvalidInput) before any sound speed is
\* computed, the cavitation check evaluated or the root-finder invoked.
C4_Claim ==
  \A t \in Threads :
    NonPositiveInput(frame[t])
      => /\ ~InLog(frame[t], "sound_speeds")
         /\ ~InLog(frame[t], "cavitation_check")
         /\ ~InLog(frame[t], "fsolve")
         /\ Finished(frame[t]) => frame[t].result = "InvalidInput"

\* C4, amended: the call validates nothing.  An input state of density zero
\* makes conservative_to_primitive raise ZeroDivisionError before any sound
\* speed is computed; for any other input the sound speeds are computed and
\* the cavitation check is evaluated, and unless that check triggers the
\* root-finder is invoked, non-positive density or pressure or not.
C4_Amended ==
  \A t \in Threads :
    LET f == frame[t] IN
    (Finished(f) /\ NonPositiveInput(f))
      => \/ /\ f.q_l[1] = 0 \/ f.q_r[1] = 0
            /\ f.result = "ZeroDivisionError"
            /\ ~InLog(f, "sound_speeds") /\ ~InLog(f, "fsolve")
         \/ /\ f.q_l[1] # 0 /\ f.q_r[1] # 0
            /\ InLog(f, "sound_speeds") /\ InLog(f, "cavitation_check")
            /\ IF CavitationHolds(f)
               THEN f.result = "None"
               ELSE f.fsolve_calls # <<>> /\ f.result = "tuple"

C4_Witness ==
  \E t \in Threads :
    /\ Finished(frame[t]) /\ NonPositiveInput(frame[t])
    /\ frame[t].q_l[1] > 0 /\ frame[t].q_r[1] > 0
    /\ frame[t].fsolve_calls # <<>>

----------------------------------------------------------------------------
(* C5 *)

\* C5, as the specification states it: the five wave speeds of every
\* returned result satisfy ws[0] <= ws[1] <= ws[2] <= ws[3] <= ws[4].
C5_Claim ==
  \A t \in Threads :
    (frame[t].result = "tuple" /\ ~frame[t].mutated)
      => Ordered(Boundaries(frame[t].speeds))

\* C5, on the results it is least in doubt for: the five wave speeds of a
\* returned result satisfy ws[0] <= ws[1] <= ws[2] <= ws[3] <= ws[4] when
\* the input states have positive density and pressure and the root-finder
\* reported convergence.
C5_Converged ==
  \A t \in Threads :
    (/\ frame[t].result = "tuple" /\ ~frame[t].mutated
     /\ ValidInput(frame[t]) /\ frame[t].ier = 1)
      => Ordered(Boundaries(frame[t].speeds))

----------------------------------------------------------------------------
(* C6 *)

\* C6: two calls with the same q_l, q_r and gamma argument return results of
\* the same kind with equal states and equal speeds, and evaluators that
\* agree at every xi, whatever the module-level gamma held at either call
\* (stated for the calls in which the root-finder converged).
C6_Claim ==
  \A t \in Threads :
    LET a == prev[t]
        b == frame[t]
    IN  (/\ a # <<>> /\ Finished(b)
         /\ a.ier = 1 /\ (b.result = "tuple" => b.ier = 1))
          => /\ b.result = a.result
             /\ b.states = a.states
             /\ b.speeds = a.speeds
             /\ \A xi \in XiSet(a) :
                  reval(xi, a, a.speeds, gamma) = reval(xi, b, b.speeds, gamma)

----------------------------------------------------------------------------
(* C7 *)

\* C7: once a call has returned, no step of the caller on the returned
\* lists changes the value reval gives at any xi.
C7_Claim ==
  [][\A t \in Threads :
       (/\ frame[t].pc = "caller" /\ frame[t].result = "tuple"
        /\ frame'[t].pc = "caller" /\ frame'[t].result = "tuple"
        /\ frame'[t].ncalls = frame[t].ncalls
        /\ gamma' = gamma)
         => \A xi \in XiSet(frame[t]) :
              reval(xi, frame'[t], frame'[t].speeds, gamma')
                = reval(xi, frame[t], frame[t].speeds, gamma)]_vars

----------------------------------------------------------------------------
(* C8 *)

\* C8: under every interleaving of the threads, a call returns what the
\* same call returns when it runs alone from the module state it was
\* entered in (stated for the calls in which the root-finder converged).
C8_Claim ==
  \A t \in Threads :
    LET f == frame[t]
        a == RunAlone(f.q_l, f.q_r, f.gamma, f.g0)
    IN  (Finished(f) /\ (f.result = "tuple" => f.ier = 1 /\ ~f.mutated))
          => /\ f.result = a.result
             /\ f.states = a.states
             /\ f.speeds = a.speeds

----------------------------------------------------------------------------
(* C9 *)

\* C9: when the five boundaries are ordered, the xi at which reval was
\* evaluated made exactly one of the six indicator factors true, and a xi
\* equal to boundary i made true the factor of a region not to the right
\* of that boundary.
C9_OneRegion ==
  \A t \in Threads :
    LET f == frame[t]
        b == Boundaries(f.speeds)
    IN  (/\ f.result = "tuple" /\ f.xi # Unbound /\ ~f.mutated
         /\ Ordered(b))
          => /\ Cardinality({k \in 1..6 : f.ind[k]}) = 1
             /\ \A i \in 1..5 :
                  f.xi = b[i] => \E k \in 1..i : f.ind[k]

C9_Witness ==
  \E t \in Threads :
    LET f == frame[t] IN
    /\ f.result = "tuple" /\ f.xi # Unbound /\ ~f.mutated
    /\ Ordered(Boundaries(f.speeds))
    /\ f.xi = f.speeds[2]
    /\ f.ind[3]

----------------------------------------------------------------------------
(* C10 *)

\* C10: states[0] and states[3] are the inputs, and the value reval gave
\* at xi is states[0] for xi <= ws[0], states[1] for ws[1] < xi <= ws[2],
\* states[2] for ws[2] < xi <= ws[3] and states[3] for xi > ws[4] (stated
\* for valid inputs on which the root-finder converged).
C10_Claim ==
  \A t \in Threads :
    LET f == frame[t]
        b == Boundaries(f.speeds)
        x == f.xi
    IN  (/\ f.result = "tuple" /\ x # Unbound /\ ~f.mutated
         /\ ValidInput(f) /\ f.ier = 1)
          => /\ f.states[1] = f.q_l /\ f.states[4] = f.q_r
             /\ FLe(x, b[1]) => f.q_out = f.states[1]
             /\ (FGt(x, b[2]) /\ FLe(x, b[3])) => f.q_out = f.states[2]
             /\ (FGt(x, b[3]) /\ FLe(x, b[4])) => f.q_out = f.states[3]
             /\ FGt(x, b[5]) => f.q_out = f.states[4]

----------------------------------------------------------------------------
(* C11 *)

\* A conserved state has positive density and, under every gamma of the
\* model, positive derived pressure.
StatePositive(q) ==
  /\ FGt(q[1], 0)
  /\ \A g \in GammaSet : FGt(conservative_to_primitive(q, g)[3], 0)

----------------------------------------------------------------------------
(* C12: the two conversions applied one after the other, as the caller     *)
(* plot_exact_riemann_solution applies them (lines 238-244); prev[t] holds *)
(* the caller's values.                                                    *)

\* Primitive values the round trip is tried on, in steps of 1/Scale.
RhoSet == {50, 100, 200, 300}
USet   == {-300, -100, -33, 0, 7, 100, 150}
PSet   == {1, 33, 100, 301}

\* The distance, in steps of 1/Scale, within which two floats count as equal.
RoundTripTol == 1

\* q = primitive_to_conservative(rho,u,p)
ToConservative(t, rho, u, p) ==
  /\ prev[t] = <<>>
  /\ prev' = [prev EXCEPT ![t] =
                [prim |-> <<rho, u, p>>, g1 |-> gamma,
                 q |-> primitive_to_conservative(rho, u, p, gamma),
                 g2 |-> Unbound, back |-> <<>>]]
  /\ UNCHANGED <<gamma, frame>>

\* primitive = conservative_to_primitive(q[0],q[1],q[2])
ToPrimitive(t) ==
  /\ prev[t] # <<>>
  /\ prev[t].back = <<>>
  /\ prev[t].q[1] # 0
  /\ prev' = [prev EXCEPT ![t] =
                [@ EXCEPT !.g2 = gamma,
                          !.back = conservative_to_primitive(prev[t].q, gamma)]]
  /\ UNCHANGED <<gamma, frame>>

NextRoundTrip ==
  \/ \E g \in GammaSet : SetGamma(1, g)
  \/ \E rho \in RhoSet, u \in USet, p \in PSet : ToConservative(1, rho, u, p)
  \/ ToPrimitive(1)

SpecRoundTrip == Init /\ [][NextRoundTrip]_vars

\* |a - b| <= RoundTripTol, and neither is nan.
Close(a, b) == a # NaN /\ b # NaN /\ Abs(a - b) <= RoundTripTol

\* C12: for rho > 0 and p > 0, when both conversions ran under the same
\* gamma, conservative_to_primitive(primitive_to_conservative(rho,u,p))
\* is (rho,u,p): rho exactly, u and p to within the rounding tolerance.
C12_RoundTrip ==
  \A t \in Threads :
    (/\ prev[t] # <<>> /\ prev[t].back # <<>>
     /\ prev[t].g1 = prev[t].g2
     /\ prev[t].prim[1] > 0 /\ prev[t].prim[3] > 0)
      => /\ prev[t].back[1] = prev[t].prim[1]
         /\ Close(prev[t].back[2], prev[t].prim[2])
         /\ Close(prev[t].back[3], prev[t].prim[3])

C12_Witness ==
  \E t \in Threads :
    /\ prev[t] # <<>> /\ prev[t].back # <<>>
    /\ prev[t].g1 = prev[t].g2
    /\ prev[t].prim = <<300, -33, 301>>
    /\ prev[t].g1 = 3 * Scale

----------------------------------------------------------------------------
(* C13 *)

\* The term of indicator k contributes nothing to the three sums of reval
\* at xi: its product with the value is 0.
NoContribution(xi, f, k, rar) ==
  \A j \in 1..3 : Times(Indicators(xi, f.speeds)[k], rar[j]) = 0

----------------------------------------------------------------------------
(* C14 *)

\* The interpreter goes on executing a call that has a next statement.
SpecLive == Init /\ [][Next]_vars /\ WF_vars(Step(1))

\* C14: at most two root-finder invocations are made in a call, and every
\* call that was entered ends, with a return or an exception.
C14_Terminates ==
  /\ [](\A t \in Threads : Len(frame[t].fsolve_calls) <= 2)
  /\ \A t \in Threads : (frame[t].pc # "caller") ~> Finished(frame[t])

C14_Witness ==
  \E t \in Threads :
    /\ Finished(frame[t])
    /\ Len(frame[t].fsolve_calls) = 2
    /\ frame[t].ier # 1

----------------------------------------------------------------------------
(* C15: a caller that solves a problem and then its mirror image.          *)

\* The mirror image of a conserved state: the momentum negated.
Mirror(q) == <<q[1], FSub(0, q[2]), q[3]>>

\* After a returned call, the caller solves the swapped pair with both
\* velocities negated, with the same gamma argument.
CallMirror(t) ==
  /\ frame[t].pc = "caller"
  /\ frame[t].ncalls \in 1..(MaxCalls - 1)
  /\ frame[t].result = "tuple"
  /\ prev[t] = <<>>
  /\ prev' = [prev EXCEPT ![t] = [frame[t] EXCEPT !.xi = Unbound,
                                                 !.q_out = <<>>, !.ind = <<>>]]
  /\ Enter(t, Mirror(frame[t].q_r), Mirror(frame[t].q_l), frame[t].gamma)
  /\ UNCHANGED gamma

NextMirror ==
  \/ \E g \in GammaSet : SetGamma(1, g)
  \/ \E g \in GammaSet : Call(1, Problems, g)
  \/ CallMirror(1)
  \/ Step(1)

SpecMirror == Init /\ [][NextMirror]_vars

\* The distance, in steps of 1/Scale, within which the values of two
\* results count as equal.
MirrorTol == 5

\* |x - y| <= MirrorTol, and neither is nan.
Near(x, y) == x # NaN /\ y # NaN /\ Abs(x - y) <= MirrorTol

\* Points well inside the six regions of result a: the middle of every gap
\* between two wave speeds that is wider than the tolerance, and two far
\* points.
InnerXi(a) ==
  {(a.ws[i] + a.ws[i + 1]) \div 2 :
     i \in {j \in 1..4 : /\ a.ws[j] # NaN /\ a.ws[j + 1] # NaN
                         /\ a.ws[j + 1] - a.ws[j] > 4 * MirrorTol}}
    \cup {-4 * Scale, 4 * Scale}

\* At xi the result a and, at -xi, the result b give mirror images: equal
\* density and energy, opposite momentum (both evaluated under gamma g).
MirrorImages(xi, a, b, g) ==
  LET ra == reval(xi, a, a.speeds, g)
      rb == reval(FSub(0, xi), b, b.speeds, g)
  IN  /\ Near(ra[1], rb[1])
      /\ Near(ra[2], FSub(0, rb[2]))
      /\ Near(ra[3], rb[3])

\* C15: the result of the mirrored problem is the mirror image of the
\* result of the problem: at every xi well inside a region the two
\* evaluators give mirror images to within the rounding tolerance, and the
\* left wave of one is a shock exactly when the right wave of the other is
\* (stated for the calls in which the root-finder converged).
C15_Claim ==
  \A t \in Threads :
    LET a == prev[t]
        b == frame[t]
    IN  (/\ a # <<>> /\ Finished(b)
         /\ a.ier = 1 /\ (b.result = "tuple" => b.ier = 1))
          => /\ b.result = "tuple"
             /\ FGt(a.p, a.p_l) <=> FGt(b.p, b.p_r)
             /\ FGt(a.p, a.p_r) <=> FGt(b.p, b.p_l)
             /\ \A xi \in InnerXi(a) : MirrorImages(xi, a, b, gamma)

----------------------------------------------------------------------------
(* C16 *)

\* The distance, in steps of 1/Scale, within which the value of a fan
\* formula and a state count as equal.
FanTol == 5

\* Two primitive triples agree to within FanTol, and hold no nan.
SameTriple(a, b) ==
  \A j \in 1..3 : a[j] # NaN /\ b[j] # NaN /\ Abs(a[j] - b[j]) <= FanTol

\* The fan formulas of result f meet the neighbouring states at both ends
\* of every rarefaction fan.
FanEndsMeet(f) ==
  /\ ~FGt(f.p, f.p_l)
       => /\ SameTriple(raref1(f.ws[1], f), <<f.rho_l, f.u_l, f.p_l>>)
          /\ SameTriple(raref1(f.ws[2], f), <<f.rho_l_star, f.u, f.p>>)
  /\ ~FGt(f.p, f.p_r)
       => /\ SameTriple(raref3(f.ws[4], f), <<f.rho_r_star, f.u, f.p>>)
          /\ SameTriple(raref3(f.ws[5], f), <<f.rho_r, f.u_r, f.p_r>>)

\* C16, as the specification states it: in every returned result raref1
\* gives the left state at u_l - c_l and the left-star state at
\* u* - c*_l, and raref3 the right-star state at u* + c*_r and the right
\* state at u_r + c_r, whenever that side is a rarefaction.
C16_Claim ==
  \A t \in Threads :
    (frame[t].result = "tuple" /\ ValidInput(frame[t]))
      => FanEndsMeet(frame[t])

\* C16, amended: the same, to within rounding, for the results returned
\* after the root-finder reported convergence.
C16_Amended ==
  \A t \in Threads :
    (/\ frame[t].result = "tuple" /\ ValidInput(frame[t])
     /\ frame[t].ier = 1)
      => FanEndsMeet(frame[t])

C16_Witness ==
  \E t \in Threads :
    /\ frame[t].result = "tuple" /\ ValidInput(frame[t])
    /\ frame[t].ier = 1
    /\ FLt(frame[t].ws[1], frame[t].ws[2])
    /\ FLt(frame[t].ws[4], frame[t].ws[5])

----------------------------------------------------------------------------
(* C17 *)

\* Both sides at rest and p_l > p_r, with positive densities and pressures.
ShockTube(f) ==
  /\ ValidInput(f)
  /\ f.u_l = 0 /\ f.u_r = 0
  /\ FGt(f.p_l, f.p_r)

----------------------------------------------------------------------------
(* C18 *)

\* Equal densities and pressures, both positive, and the two states moving
\* toward each other at the same speed.
Colliding(f) ==
  /\ ValidInput(f)
  /\ f.rho_l = f.rho_r /\ f.p_l = f.p_r
  /\ FGt(f.u_l, 0) /\ f.u_r = -f.u_l

----------------------------------------------------------------------------
(* C19 *)

\* The inequality of the notebook's text (line 337):
\* u_l + 2 c_l/(gamma-1) < u_r + 2 c_r/(gamma-1).
NotebookCondition(f) ==
  FLt(FAdd(f.u_l, FDiv(FMul(2 * Scale, f.c_l), FSub(f.gamma, Scale))),
      FAdd(f.u_r, FDiv(FMul(2 * Scale, f.c_r), FSub(f.gamma, Scale))))

----------------------------------------------------------------------------
(* C25 *)

\* The thread is past the root-finding of lines 133-140.
Solved(f) == f.pc \in {"L142", "L185", "L186"} \/ f.result = "tuple"

\* The arguments of the calls made so far are those of lines 133 and 136.
RetryArguments(f) ==
  LET x0 == FDiv(FAdd(f.p_l, f.p_r), 2 * Scale)
      n  == Len(f.fsolve_calls)
  IN  /\ n <= 2
      /\ n >= 1 => f.fsolve_calls[1] =
                     [x0 |-> x0, xtol |-> "1.e-14", factor |-> "default"]
      /\ n = 2 => f.fsolve_calls[2] =
                     [x0 |-> x0, xtol |-> "1.e-10", factor |-> "0.1"]

\* C25: the root-finder is invoked at most twice per call, both times from
\* the seed (p_l + p_r)/2, first with xtol 1e-14 and then with factor 0.1
\* and xtol 1e-10; the second invocation is made if and only if the first
\* reported ier != 1, and when the first converged its p is the one used.
C25_Retry ==
  /\ [](\A t \in Threads :
          /\ RetryArguments(frame[t])
          /\ Solved(frame[t]) => Len(frame[t].fsolve_calls) >= 1)
  /\ [][\A t \in Threads :
          (frame[t].pc = "L135" /\ frame'[t] # frame[t]) =>
             /\ Len(frame[t].fsolve_calls) = 1
             /\ frame'[t].pc = "L142"
             /\ (Len(frame'[t].fsolve_calls) = 2) <=> (frame[t].ier # 1)
             /\ frame[t].ier = 1 =>
                  /\ frame'[t].p = frame[t].p
                  /\ frame'[t].ier = 1]_vars

C25_Witness ==
  \E t \in Threads :
    /\ frame[t].result = "tuple"
    /\ Len(frame[t].fsolve_calls) = 2
    /\ frame[t].ier = 1

----------------------------------------------------------------------------
(* C26 *)

\* The wave speeds of lines 149-168 have been computed.
HasSpeeds(f) == f.ws # <<>>

\* (rho_s*u_s - rho_s_star*u)/(rho_s - rho_s_star), from the frame's values.
RankineHugoniot(rho_s, u_s, rho_star, u) ==
  FDiv(FSub(FMul(rho_s, u_s), FMul(rho_star, u)), FSub(rho_s, rho_star))

\* C26: the left wave is a shock (one speed, the Rankine-Hugoniot quotient,
\* twice) iff p > p_l and else a fan from u_l - c_l to u - c_l_star; the
\* right wave is a shock iff p > p_r and else a fan from u + c_r_star to
\* u_r + c_r; and wherever p differs from the side pressure the branch is
\* the one phi_l, phi_r took at p.
C26_Classified ==
  \A t \in Threads :
    LET f == frame[t] IN
    HasSpeeds(f)
      => /\ IF f.p # NaN /\ f.p_l # NaN /\ f.p > f.p_l
            THEN /\ f.ws[1] = RankineHugoniot(f.rho_l, f.u_l, f.rho_l_star, f.u)
                 /\ f.ws[2] = f.ws[1]
                 /\ f.u = hugoniot_locus_1(f.p, f)
                 /\ phi_l(f.p, f) = hugoniot_locus_1(f.p, f)
            ELSE /\ f.ws[1] = FSub(f.u_l, f.c_l)
                 /\ f.ws[2] = FSub(f.u, FSqrt(FDiv(FMul(f.gamma, f.p),
                                                   f.rho_l_star)))
                 /\ f.p # f.p_l
                      => /\ f.u = integral_curve_1(f.p, f)
                         /\ phi_l(f.p, f) = integral_curve_1(f.p, f)
         /\ IF f.p # NaN /\ f.p_r # NaN /\ f.p > f.p_r
            THEN /\ f.ws[5] = RankineHugoniot(f.rho_r, f.u_r, f.rho_r_star, f.u)
                 /\ f.ws[4] = f.ws[5]
                 /\ phi_r(f.p, f) = hugoniot_locus_3(f.p, f)
            ELSE /\ f.ws[4] = FAdd(f.u, FSqrt(FDiv(FMul(f.gamma, f.p),
                                                   f.rho_r_star)))
                 /\ f.ws[5] = FAdd(f.u_r, f.c_r)
                 /\ f.p # f.p_r
                      => phi_r(f.p, f) = integral_curve_3(f.p, f)

C26_Witness ==
  \E t \in Threads :
    LET f == frame[t] IN
    /\ f.result = "tuple" /\ f.ier = 1
    /\ f.p < f.p_l /\ f.p > f.p_r
    /\ f.ws[1] < f.ws[2] /\ f.ws[4] = f.ws[5]

----------------------------------------------------------------------------
(* C27 *)

\* The sound speeds and beta of lines 103-107 have been computed, so that
\* the curves of lines 115-128 are defined.
HasCurves(f) == f.beta # Unbound

\* Both branches of phi_l at p_l give u_l, both branches of phi_r at p_r give
\* u_r, and so do phi_l and phi_r themselves.
TieAgrees(f) ==
  /\ hugoniot_locus_1(f.p_l, f) = f.u_l
  /\ integral_curve_1(f.p_l, f) = f.u_l
  /\ phi_l(f.p_l, f) = f.u_l
  /\ hugoniot_locus_3(f.p_r, f) = f.u_r
  /\ integral_curve_3(f.p_r, f) = f.u_r
  /\ phi_r(f.p_r, f) = f.u_r
  /\ (f.u # Unbound /\ f.p = f.p_l) => f.u = f.u_l

\* C27, as the specification states it: at the tie p = side pressure both
\* branches of phi give the side velocity.
C27_Claim ==
  \A t \in Threads : HasCurves(frame[t]) => TieAgrees(frame[t])

\* C27, amended: for input states of positive density and pressure, at the
\* tie p = side pressure both branches of phi give the side velocity.
C27_Amended ==
  \A t \in Threads :
    (HasCurves(frame[t]) /\ ValidInput(frame[t])) => TieAgrees(frame[t])

C27_Witness ==
  \E t \in Threads :
    LET f == frame[t] IN
    /\ f.result = "tuple" /\ f.ier = 1 /\ ValidInput(f)
    /\ f.p = f.p_l /\ f.u = f.u_l

----------------------------------------------------------------------------
(* C28 *)

\* (p/p_s)**(1./gamma) * rho_s, from the frame's values.
Isentropic(p, p_s, rho_s, g) == FMul(FPow(FDiv(p, p_s), Scale, g), rho_s)

\* C28: in a returned result both star states are built from the one
\* velocity u = phi_l(p) and the one pressure p, the contact speed
\* speeds[1] is that u, and the star densities are the isentropic values
\* (p/p_l)^(1/gamma) rho_l and (p/p_r)^(1/gamma) rho_r on a shock side as on
\* a rarefaction side.
C28_Contact ==
  \A t \in Threads :
    LET f == frame[t] IN
    f.result = "tuple"
      => /\ f.u = (IF FGe(f.p, f.p_l) THEN hugoniot_locus_1(f.p, f)
                                      ELSE integral_curve_1(f.p, f))
         /\ f.rho_l_star = Isentropic(f.p, f.p_l, f.rho_l, f.gamma)
         /\ f.rho_r_star = Isentropic(f.p, f.p_r, f.rho_r, f.gamma)
         /\ \E g \in GammaSet :
              /\ f.states[2] =
                   primitive_to_conservative(f.rho_l_star, f.u, f.p, g)
              /\ f.states[3] =
                   primitive_to_conservative(f.rho_r_star, f.u, f.p, g)
         /\ f.rho_l_star = f.rho_r_star => f.states[2] = f.states[3]
         /\ f.ws[3] = f.u
         /\ ~f.mutated => f.speeds[2] = f.u

C28_Witness ==
  \E t \in Threads :
    LET f == frame[t] IN
    /\ f.result = "tuple" /\ f.ier = 1 /\ ~f.mutated /\ ValidInput(f)
    /\ f.p > f.p_r /\ f.p < f.p_l
    /\ f.rho_l_star # f.rho_r_star
    /\ f.states[2] # f.states[3]

----------------------------------------------------------------------------
(* C29 *)

\* Riemann problems whose solution is a hundredth of a unit away from a
\* side state, as primitive states (rho, u, p) in hundredths: a wall
\* pushed at speed 0.01 into gas at rest, two weak collisions, gas at rest.
NearTieProblems ==
  { [l |-> <<100, 1, 100>>, r |-> <<100, 0, 100>>],
    [l |-> <<100, 0, 100>>, r |-> <<100, -1, 100>>],
    [l |-> <<100, 1, 100>>, r |-> <<100, -1, 100>>],
    [l |-> <<100, 2, 100>>, r |-> <<100, -2, 100>>],
    [l |-> <<100, 0, 100>>, r |-> <<100, 0, 100>>] }

\* The thread's first call, on a problem of NearTieProblems, built as the
\* notebook's callers build the arguments (lines 238-239).
CallNearTie(t, g) ==
  /\ frame[t].pc = "caller"
  /\ frame[t].ncalls = 0
  /\ \E pb \in NearTieProblems :
       Enter(t, primitive_to_conservative(pb.l[1], pb.l[2], pb.l[3], gamma),
                primitive_to_conservative(pb.r[1], pb.r[2], pb.r[3], gamma), g)
  /\ UNCHANGED <<gamma, prev>>

NextNearTie ==
  \/ \E g \in GammaSet : SetGamma(1, g)
  \/ \E g \in GammaSet : CallNearTie(1, g)
  \/ Step(1)
  \/ \E xi \in XiSet(frame[1]) : Reval(1, xi)

SpecNearTie == Init /\ [][NextNearTie]_vars

\* The side (p_s, rho_s) takes the shock branch of lines 154, 162 and its
\* input pressure and density are positive.
ShockTaken(p, p_s, rho_s) == FGt(p, p_s) /\ FGt(p_s, 0) /\ FGt(rho_s, 0)

\* C29, as the specification states it: whenever the shock branch is taken
\* for a side of positive pressure and density, the star density of that
\* side is strictly greater than the side's density, so the denominator
\* rho_s - rho_s_star of the shock speed is not zero.
C29_Claim ==
  \A t \in Threads :
    LET f == frame[t] IN
    HasSpeeds(f)
      => /\ ShockTaken(f.p, f.p_l, f.rho_l)
              => /\ FGt(f.rho_l_star, f.rho_l)
                 /\ FSub(f.rho_l, f.rho_l_star) # 0
                 /\ f.ws[1] # NaN
         /\ ShockTaken(f.p, f.p_r, f.rho_r)
              => /\ FGt(f.rho_r_star, f.rho_r)
                 /\ FSub(f.rho_r, f.rho_r_star) # 0
                 /\ f.ws[5] # NaN

----------------------------------------------------------------------------
(* C30 *)

\* reval takes the same value at xi and one step to the right of xi.
NoJump(xi, f) ==
  \A g \in GammaSet :
    reval(xi, f, f.speeds, g) = reval(xi + 1, f, f.speeds, g)

\* The left wave of a result solved at p = p_l is degenerate.
LeftDegenerate(f) ==
  /\ FGe(f.p, f.p_l) /\ f.u = hugoniot_locus_1(f.p, f)
  /\ ~FGt(f.p, f.p_l)
  /\ f.rho_l_star = f.rho_l /\ f.u = f.u_l
  /\ f.ws[1] = FSub(f.u_l, f.c_l) /\ f.ws[2] = f.ws[1]
  /\ NoJump(f.ws[1], f)

\* The right wave of a result solved at p = p_r is degenerate.
RightDegenerate(f) ==
  /\ FGe(f.p, f.p_r) /\ phi_r(f.p, f) = hugoniot_locus_3(f.p, f)
  /\ ~FGt(f.p, f.p_r)
  /\ f.rho_r_star = f.rho_r /\ f.u = f.u_r
  /\ f.ws[5] = FAdd(f.u_r, f.c_r) /\ f.ws[4] = f.ws[5]
  /\ NoJump(f.ws[5], f)

\* C30, as the specification states it: when p equals a side pressure, phi
\* takes the Hugoniot branch and the speeds the rarefaction branch, the
\* side's star state is the side's initial state, the pair is head = tail
\* (u_l - c_l on the left, u_r + c_r on the right) and reval has no jump
\* there.
C30_Claim ==
  \A t \in Threads :
    LET f == frame[t] IN
    (f.result = "tuple" /\ ~f.mutated)
      => /\ f.p = f.p_l => LeftDegenerate(f)
         /\ f.p = f.p_r => RightDegenerate(f)

\* The right wave of a result solved at p = p_r: the branches, the star
\* density and the tail are those of a degenerate wave; the head is
\* u + c_r, and the wave is degenerate when u, which is phi_l(p), is u_r.
RightAtTie(f) ==
  /\ FGe(f.p, f.p_r) /\ phi_r(f.p, f) = hugoniot_locus_3(f.p, f)
  /\ ~FGt(f.p, f.p_r)
  /\ f.rho_r_star = f.rho_r
  /\ f.ws[5] = FAdd(f.u_r, f.c_r) /\ f.ws[4] = FAdd(f.u, f.c_r)
  /\ phi_r(f.p, f) = f.u_r
  /\ f.u = f.u_r => (f.ws[4] = f.ws[5] /\ NoJump(f.ws[5], f))

\* C30, amended: for inputs of positive density and pressure, a result
\* solved at p = p_l has a degenerate left wave as stated; a result solved
\* at p = p_r has the right star density rho_r and the pair
\* (u + c_r, u_r + c_r), which is head = tail, with no jump of reval, when
\* u = phi_l(p) equals u_r.
C30_Amended ==
  \A t \in Threads :
    LET f == frame[t] IN
    (f.result = "tuple" /\ ~f.mutated /\ ValidInput(f))
      => /\ f.p = f.p_l => LeftDegenerate(f)
         /\ f.p = f.p_r => RightAtTie(f)

C30_Witness ==
  \E t \in Threads :
    LET f == frame[t] IN
    /\ f.result = "tuple" /\ ~f.mutated /\ ValidInput(f) /\ f.ier = 1
    /\ f.p = f.p_l /\ f.p = f.p_r
    /\ f.u = f.u_r
    /\ f.ws[1] = f.ws[2] /\ f.ws[4] = f.ws[5]
    /\ f.xi = f.ws[5]

====
